---- MODULE Spec2Model ----
(***************************************************************************)
(* A model of file_ops.py: the patterns-file parser, the resolution of the *)
(* command line and the patterns file into matching criteria, the tree     *)
(* walk of find_matching_items and the bulk executor process_items.        *)
(*                                                                         *)
(* Strings of the program are sequences of one-character strings, so that  *)
(* lower(), strip(), split('#'), startswith/endswith, splitext and the     *)
(* substring test are computed as Python computes them.                    *)
(***************************************************************************)
EXTENDS Integers, Sequences, FiniteSets, TLC

VARIABLES
  pc,             \* where the program is
  pf,             \* the lines of the patterns file, or NoSuchFile
  pf_pos,         \* parse_patterns_file: the line read next
  patterns,       \* parse_patterns_file: its dict `patterns`
  fs,             \* the file system: the entries that exist
  cfg,            \* the arguments of the call of find_matching_items
  matched_files,  \* find_matching_items: its list matched_files
  matched_dirs,   \* find_matching_items: its list matched_dirs
  seen,           \* the files and directories the walk iterated over
  argv,           \* the command line as argparse parsed it
  args,           \* main: the namespace args, which main rewrites
  loc,            \* main: its locals exclude_dirs, include_all_files, ...
  batch,          \* process_items: its arguments, loop position and locals
  outcome,        \* main: files_processed, file_errors, dirs_processed, dir_errors
  exit_code,      \* the exit status of the process, once it has ended
  fs0,            \* the file system as the run found it
  faulty,         \* the paths on which the operating system refuses an operation
  attempts        \* the operations process_items attempted, in order

parseVars == <<pf, pf_pos, patterns>>
walkVars == <<fs, cfg, matched_files, matched_dirs, seen>>
mainVars == <<argv, args, loc, batch, outcome, exit_code, fs0, faulty, attempts>>
vars == <<pc, pf, pf_pos, patterns, fs, cfg, matched_files, matched_dirs, seen,
          argv, args, loc, batch, outcome, exit_code, fs0, faulty, attempts>>

(***************************************************************************)
(* Strings                                                                 *)
(***************************************************************************)

\* The longest raw line of a patterns file, and the most lines of a file.
MaxLineLen == 2
MaxLines == 1

\* str.lower() on one character
LowerChar(c) ==
  CASE c = "A" -> "a"
    [] c = "B" -> "b"
    [] c = "M" -> "m"
    [] c = "P" -> "p"
    [] c = "T" -> "t"
    [] OTHER -> c

\* str.lower()
Lower(s) == [i \in 1..Len(s) |-> LowerChar(s[i])]

\* the characters str.strip() removes
IsSpace(c) == c \in {" ", "\t", "\n"}

\* s.split('#', 1)[0]: the text before the first '#'
BeforeHash(s) ==
  IF \E i \in 1..Len(s) : s[i] = "#"
    THEN SubSeq(s, 1, (CHOOSE i \in 1..Len(s) :
                         s[i] = "#" /\ \A j \in 1..(i-1) : s[j] # "#") - 1)
    ELSE s

\* str.strip()
Strip(s) ==
  IF \A i \in 1..Len(s) : IsSpace(s[i])
    THEN <<>>
    ELSE LET first == CHOOSE i \in 1..Len(s) :
                        ~IsSpace(s[i]) /\ \A j \in 1..(i-1) : IsSpace(s[j])
             last  == CHOOSE i \in 1..Len(s) :
                        ~IsSpace(s[i]) /\ \A j \in (i+1)..Len(s) : IsSpace(s[j])
         IN  SubSeq(s, first, last)

\* str.startswith / str.endswith with a one-character argument
StartsWith(s, c) == Len(s) >= 1 /\ s[1] = c
EndsWith(s, c) == Len(s) >= 1 /\ s[Len(s)] = c

\* the Python test `sub in s` on strings
InStr(sub, s) ==
  \E i \in 0..(Len(s) - Len(sub)) : SubSeq(s, i + 1, i + Len(sub)) = sub

\* the Python test `x in lst` on a list (None and [] hold nothing)
InList(x, lst) == \E i \in 1..Len(lst) : lst[i] = x

\* list + list
Concat(a, b) == a \o b

NothingSeen == [files |-> <<>>, dirs |-> <<>>]

\* The values of main's variables while main is not running.
NoMain ==
  /\ argv = "None"
  /\ args = "None"
  /\ loc = "None"
  /\ batch = "None"
  /\ outcome = "None"
  /\ exit_code = "None"
  /\ fs0 = {}
  /\ faulty = {}
  /\ attempts = <<>>

(***************************************************************************)
(* parse_patterns_file                                                     *)
(***************************************************************************)

\* The path of a patterns file that does not exist, and of the one that does.
NoSuchFile == "missing.txt"
PatternsPath == "patterns.txt"

EmptyPatterns ==
  [extensions |-> <<>>, directories |-> <<>>, exact |-> <<>>, contains |-> <<>>]

\* The body of the loop over the lines of the file: one raw line is cleaned,
\* then skipped or appended to one list.
PatternsAddBug(p, raw) ==
  LET line == Strip(BeforeHash(raw))
  IN  IF line = <<>> THEN p
      ELSE IF EndsWith(line, "/")
        THEN [p EXCEPT !.directories = Append(@, SubSeq(line, 1, Len(line) - 1))]
      ELSE IF StartsWith(line, ".")
        THEN [p EXCEPT !.extensions = Append(@, Lower(line))]
      ELSE IF StartsWith(line, "*")
        THEN [p EXCEPT !.contains = Append(@, SubSeq(line, 2, Len(line)))]
      ELSE [p EXCEPT !.exact = Append(@, line)]

PatternsAdd(p, raw) ==
  LET line == Strip(BeforeHash(raw))
  IN  IF line = <<>> THEN p
      ELSE IF StartsWith(line, ".")
        THEN [p EXCEPT !.extensions = Append(@, Lower(line))]
      ELSE IF EndsWith(line, "/")
        THEN [p EXCEPT !.directories = Append(@, SubSeq(line, 1, Len(line) - 1))]
      ELSE IF StartsWith(line, "*")
        THEN [p EXCEPT !.contains = Append(@, SubSeq(line, 2, Len(line)))]
      ELSE [p EXCEPT !.exact = Append(@, line)]

\* The whole call on an existing, readable file: the loop run over every line.
RECURSIVE ParseLines(_, _)
ParseLines(p, lines) ==
  IF lines = <<>> THEN p
  ELSE ParseLines(PatternsAdd(p, Head(lines)), Tail(lines))

\* The call: None for a path that does not exist (modelled by the caller's
\* test of Returns_None), else the lists of the lines of the file.
Returns_None(file_path) == file_path = NoSuchFile

parse_patterns_file(file_path, lines) ==
  IF Returns_None(file_path) THEN "None" ELSE ParseLines(EmptyPatterns, lines)

\* The characters of the raw lines the parser is run on.
LineAlphabet == {".", "/", "*", "#", " ", "B"}

RawLines == UNION {[1..k -> LineAlphabet] : k \in 0..MaxLineLen}

PatternFiles(k) == [1..k -> RawLines]

\* parse_patterns_file run line by line.
ParseInit ==
  /\ pc = "parse"
  /\ \E k \in 0..MaxLines : pf \in PatternFiles(k)
  /\ pf_pos = 1
  /\ patterns = EmptyPatterns
  /\ fs = {}
  /\ cfg = "None"
  /\ matched_files = <<>>
  /\ matched_dirs = <<>>
  /\ seen = NothingSeen
  /\ NoMain

ParseLine ==
  /\ pc = "parse"
  /\ pf_pos <= Len(pf)
  /\ patterns' = PatternsAdd(patterns, pf[pf_pos])
  /\ pf_pos' = pf_pos + 1
  /\ UNCHANGED <<pc, pf>>
  /\ UNCHANGED walkVars
  /\ UNCHANGED mainVars

ParseReturn ==
  /\ pc = "parse"
  /\ pf_pos > Len(pf)
  /\ pc' = "parsed"
  /\ UNCHANGED parseVars
  /\ UNCHANGED walkVars
  /\ UNCHANGED mainVars

ParseNext == ParseLine \/ ParseReturn

SpecParse == ParseInit /\ [][ParseNext]_vars

(***************************************************************************)
(* C7: the categories of the patterns file                                 *)
(***************************************************************************)

\* The text of a raw line that the rules are applied to, stated on its own:
\* the longest prefix without '#', cut down to the part between its first and
\* its last non-blank character.
C7_Code(raw) ==
  LET n == CHOOSE k \in 0..Len(raw) :
             /\ \A i \in 1..k : raw[i] # "#"
             /\ (k < Len(raw) => raw[k + 1] = "#")
      solid == {i \in 1..n : raw[i] # " "}
  IN  IF solid = {} THEN <<>>
      ELSE LET lo == CHOOSE i \in solid : \A j \in solid : i <= j
               hi == CHOOSE i \in solid : \A j \in solid : j <= i
           IN  [i \in 1..(hi - lo + 1) |-> raw[lo + i - 1]]

\* The one category of a non-empty cleaned line, by the first rule that applies.
C7_Category(c) ==
  IF c[1] = "." THEN "extensions"
  ELSE IF c[Len(c)] = "/" THEN "directories"
  ELSE IF c[1] = "*" THEN "contains"
  ELSE "exact"

\* What a cleaned line of a category is stored as.
C7_Entry(c) ==
  CASE C7_Category(c) = "extensions" -> [i \in 1..Len(c) |-> LowerChar(c[i])]
    [] C7_Category(c) = "directories" -> [i \in 1..(Len(c) - 1) |-> c[i]]
    [] C7_Category(c) = "contains" -> [i \in 1..(Len(c) - 1) |-> c[i + 1]]
    [] OTHER -> c

\* The lines read so far that belong to a category.
C7_LinesOf(cat) ==
  {i \in 1..(pf_pos - 1) :
     C7_Code(pf[i]) # <<>> /\ C7_Category(C7_Code(pf[i])) = cat}

\* C7: every line read so far that is not empty after cleaning is in exactly
\* one of the four lists, the one of the first rule that applies, stored as
\* that rule says and in file order; empty lines add nothing.  The scenario
\* file parses to extensions=['.bak'], directories=['logs'],
\* contains=['draft'], exact=['notes.txt'] (a fact about the parser alone,
\* evaluated once, in the final state of the empty file).
C7_ParserCategories ==
  /\ pc \in {"parse", "parsed"} =>
       \A cat \in {"extensions", "directories", "contains", "exact"} :
         /\ Len(patterns[cat]) = Cardinality(C7_LinesOf(cat))
         /\ \A i \in C7_LinesOf(cat) :
              patterns[cat][Cardinality({j \in C7_LinesOf(cat) : j <= i})]
                = C7_Entry(C7_Code(pf[i]))
  /\ (pc = "parsed" /\ pf = <<>>) =>
     parse_patterns_file(PatternsPath,
                         << <<".", "b", "a", "k">>,
                            <<"l", "o", "g", "s", "/">>,
                            <<"*", "d", "r", "a", "f", "t">>,
                            <<"n", "o", "t", "e", "s", ".", "t", "x", "t">> >>)
       = [extensions |-> << <<".", "b", "a", "k">> >>,
          directories |-> << <<"l", "o", "g", "s">> >>,
          contains |-> << <<"d", "r", "a", "f", "t">> >>,
          exact |-> << <<"n", "o", "t", "e", "s", ".", "t", "x", "t">> >>]

\* A parsed file with a line that two rules apply to: it starts with '.' and
\* ends with '/', and went to the extensions.
C7_Witness ==
  /\ pc = "parsed"
  /\ \E i \in 1..Len(pf) :
       /\ Len(C7_Code(pf[i])) >= 2
       /\ C7_Code(pf[i])[1] = "."
       /\ C7_Code(pf[i])[Len(C7_Code(pf[i]))] = "/"
  /\ patterns.extensions # <<>>

(***************************************************************************)
(* The file system                                                         *)
(*                                                                         *)
(* A path is the sequence of its components, a component a string.  The    *)
(* file system is the set of its entries, each a file with its contents or *)
(* a directory.                                                            *)
(***************************************************************************)

FileEntry(p, d) == [path |-> p, kind |-> "file", data |-> d]
DirEntry(p) == [path |-> p, kind |-> "dir", data |-> "-"]

\* os.path.join(root, name)
Join(p, name) == Append(p, name)

\* os.path.isfile, os.path.isdir, os.path.exists
IsFile(f, p) == \E e \in f : e.path = p /\ e.kind = "file"
IsDir(f, p) == \E e \in f : e.path = p /\ e.kind = "dir"
Exists(f, p) == \E e \in f : e.path = p

\* p is q or lies beneath q
Under(p, q) == Len(p) >= Len(q) /\ SubSeq(p, 1, Len(q)) = q

\* the entries at and beneath p
Subtree(f, p) == {e \in f : Under(e.path, p)}

\* the order directory entries are listed in: by name, character by character
CharRank(c) ==
  CASE c = "." -> 1 [] c = "1" -> 2 [] c = "M" -> 3 [] c = "T" -> 4
    [] c = "a" -> 5 [] c = "b" -> 6 [] c = "c" -> 7 [] c = "d" -> 8
    [] c = "e" -> 9 [] c = "g" -> 10 [] c = "m" -> 11 [] c = "p" -> 12
    [] c = "r" -> 13 [] c = "s" -> 14 [] c = "t" -> 15 [] c = "x" -> 16
    [] OTHER -> 17

NameBefore(a, b) ==
  \E k \in 1..(Len(a) + 1) :
    /\ k <= Len(b)
    /\ \A i \in 1..(k - 1) : a[i] = b[i]
    /\ (k = Len(a) + 1 \/ CharRank(a[k]) < CharRank(b[k]))

RECURSIVE SortNames(_)
SortNames(S) ==
  IF S = {} THEN <<>>
  ELSE LET m == CHOOSE x \in S : \A y \in S : x = y \/ NameBefore(x, y)
       IN  <<m>> \o SortNames(S \ {m})

\* the names of the files, and of the directories, in directory p, as
\* os.walk and os.listdir hand them over
ListFiles(f, p) ==
  SortNames({e.path[Len(e.path)] : e \in {x \in f :
     x.kind = "file" /\ Len(x.path) = Len(p) + 1 /\ Under(x.path, p)}})

ListDirs(f, p) ==
  SortNames({e.path[Len(e.path)] : e \in {x \in f :
     x.kind = "dir" /\ Len(x.path) = Len(p) + 1 /\ Under(x.path, p)}})

(***************************************************************************)
(* find_matching_items                                                     *)
(*                                                                         *)
(* Python's None and [] are both the empty list <<>> here: the program     *)
(* only ever tests these arguments for truth, concatenates them with       *)
(* `x or []`, or asks for membership after a truth test.                   *)
(***************************************************************************)

\* has_inclusion_criteria and has_exclusion_criteria of find_matching_items
FindHasInclusion(c) ==
  \/ c.extensions # <<>>
  \/ c.exact_match # <<>>
  \/ c.include_all_files
  \/ (c.include_dirs /\ c.target_dirs # <<>>)

FindHasExclusion(c) ==
  \/ c.exclude_extensions # <<>>
  \/ c.exclude_exact # <<>>
  \/ c.exclude_contains # <<>>
  \/ c.exclude_dirs # <<>>

\* the two early returns of find_matching_items: no walk takes place
FindRejects(c) ==
  \/ (~FindHasInclusion(c) /\ ~FindHasExclusion(c) /\ ~c.exclude_all_but)
  \/ (c.exclude_all_but /\ ~FindHasInclusion(c))

\* one extension made lower case with a leading dot
NormExt(ext) ==
  IF StartsWith(ext, ".") THEN Lower(ext) ELSE <<".">> \o Lower(ext)

NormExts(exts) == [i \in 1..Len(exts) |-> NormExt(exts[i])]

\* os.path.splitext(filename)[1] of a name without separators: from the last
\* dot on, provided a character other than a dot precedes that dot
SplitExt(name) ==
  LET dots == {i \in 1..Len(name) : name[i] = "."}
  IN  IF dots = {} THEN <<>>
      ELSE LET d == CHOOSE i \in dots : \A j \in dots : j <= i
           IN  IF \E j \in 1..(d - 1) : name[j] # "."
                 THEN SubSeq(name, d, Len(name))
                 ELSE <<>>

file_matches_criteria_NoFold(c, filename) ==
  IF c.include_all_files THEN TRUE
  ELSE IF c.exact_match # <<>> /\ InList(filename, c.exact_match) THEN TRUE
  ELSE IF c.extensions # <<>>
    THEN LET extensions == NormExts(c.extensions)
             file_ext == SplitExt(filename)
         IN  IF InList(file_ext, extensions) THEN TRUE
             ELSE IF c.contains_extension
               THEN \E i \in 1..Len(extensions) :
                      InStr(extensions[i], Lower(filename))
               ELSE FALSE
  ELSE FALSE

file_matches_criteria(c, filename) ==
  IF c.include_all_files THEN TRUE
  ELSE IF c.exact_match # <<>> /\ InList(filename, c.exact_match) THEN TRUE
  ELSE IF c.extensions # <<>>
    THEN LET extensions == NormExts(c.extensions)
             file_ext == Lower(SplitExt(filename))
         IN  IF InList(file_ext, extensions) THEN TRUE
             ELSE IF c.contains_extension
               THEN \E i \in 1..Len(extensions) :
                      InStr(extensions[i], Lower(filename))
               ELSE FALSE
  ELSE FALSE

file_matches_exclusion(c, filename) ==
  IF c.exclude_exact # <<>> /\ InList(filename, c.exclude_exact) THEN TRUE
  ELSE IF c.exclude_extensions # <<>>
          /\ InList(Lower(SplitExt(filename)), NormExts(c.exclude_extensions))
    THEN TRUE
  ELSE IF c.exclude_contains # <<>>
    THEN \E i \in 1..Len(c.exclude_contains) :
           InStr(Lower(c.exclude_contains[i]), Lower(filename))
  ELSE FALSE

\* whether the loop over the files appends the file to matched_files, from
\* its two local flags
FileSelected_KeepExcluded(c, matches_criteria, matches_exclusion) ==
  IF c.exclude_all_but
    THEN ~matches_criteria
    ELSE /\ \/ matches_criteria
            \/ ~(c.extensions # <<>> \/ c.exact_match # <<>>)
            \/ c.include_all_files
         /\ ~matches_exclusion

FileSelected_TargetsCount(c, matches_criteria, matches_exclusion) ==
  IF c.exclude_all_but
    THEN ~matches_criteria /\ ~matches_exclusion
    ELSE /\ \/ matches_criteria
            \/ ~(c.extensions # <<>> \/ c.exact_match # <<>>
                   \/ (c.include_dirs /\ c.target_dirs # <<>>))
            \/ c.include_all_files
         /\ ~matches_exclusion

FileSelected(c, matches_criteria, matches_exclusion) ==
  IF c.exclude_all_but
    THEN ~matches_criteria /\ ~matches_exclusion
    ELSE /\ \/ matches_criteria
            \/ ~(c.extensions # <<>> \/ c.exact_match # <<>>)
            \/ c.include_all_files
         /\ ~matches_exclusion

\* whether the loop over the directories appends this one to matched_dirs
DirSelected_AllWins(c, dir_name) ==
  IF c.include_all_dirs THEN TRUE
  ELSE IF c.exclude_dirs # <<>> /\ InList(dir_name, c.exclude_dirs) THEN FALSE
  ELSE c.include_dirs /\ c.target_dirs # <<>> /\ InList(dir_name, c.target_dirs)

DirSelected(c, dir_name) ==
  IF c.exclude_dirs # <<>> /\ InList(dir_name, c.exclude_dirs) THEN FALSE
  ELSE \/ c.include_all_dirs
       \/ (c.include_dirs /\ c.target_dirs # <<>>
           /\ InList(dir_name, c.target_dirs))

\* the paths of the names of a listing
PathsOf(root, names) == [i \in 1..Len(names) |-> Join(root, names[i])]

\* the loop over the files of one directory: each file with the two flags
\* computed for it
FileFlags(c, root, files) ==
  [i \in 1..Len(files) |->
     [path |-> Join(root, files[i]),
      matches_criteria |-> file_matches_criteria(c, files[i]),
      matches_exclusion |-> file_matches_exclusion(c, files[i])]]

PathsIn(recs) == [i \in 1..Len(recs) |-> recs[i].path]

\* One directory of the walk: what the two inner loops see and append.
VisitDir(f, c, root) ==
  LET files == FileFlags(c, root, ListFiles(f, root))
      dirs == ListDirs(f, root)
  IN  [files |-> PathsIn(SelectSeq(files, LAMBDA r :
                   FileSelected(c, r.matches_criteria, r.matches_exclusion))),
       dirs |-> PathsOf(root, SelectSeq(dirs, LAMBDA n : DirSelected(c, n))),
       seen_files |-> files,
       seen_dirs |-> PathsOf(root, dirs)]

MergeVisits(a, b) ==
  [files |-> a.files \o b.files, dirs |-> a.dirs \o b.dirs,
   seen_files |-> a.seen_files \o b.seen_files,
   seen_dirs |-> a.seen_dirs \o b.seen_dirs]

\* os.walk(source_dir), top down: a directory, then each of its
\* subdirectories in listing order with all that is beneath it.
RECURSIVE WalkTree(_, _, _)
RECURSIVE WalkEach(_, _, _, _)
RECURSIVE WalkEach_Pruned(_, _, _, _)
WalkTree(f, c, root) ==
  MergeVisits(VisitDir(f, c, root), WalkEach(f, c, root, ListDirs(f, root)))

WalkEach_Pruned(f, c, root, dirs) ==
  IF dirs = <<>>
    THEN [files |-> <<>>, dirs |-> <<>>, seen_files |-> <<>>, seen_dirs |-> <<>>]
  ELSE IF InList(Head(dirs), c.exclude_dirs)
    THEN WalkEach_Pruned(f, c, root, Tail(dirs))
    ELSE MergeVisits(WalkTree(f, c, Join(root, Head(dirs))),
                     WalkEach_Pruned(f, c, root, Tail(dirs)))

WalkEach(f, c, root, dirs) ==
  IF dirs = <<>>
    THEN [files |-> <<>>, dirs |-> <<>>, seen_files |-> <<>>, seen_dirs |-> <<>>]
    ELSE MergeVisits(WalkTree(f, c, Join(root, Head(dirs))),
                     WalkEach(f, c, root, Tail(dirs)))

\* The whole call: the early returns, then the recursive walk or the listing
\* of source_dir alone.
find_matching_items(f, c, source_dir) ==
  IF FindRejects(c)
    THEN [files |-> <<>>, dirs |-> <<>>, seen_files |-> <<>>, seen_dirs |-> <<>>]
  ELSE IF c.recursive THEN WalkTree(f, c, source_dir)
  ELSE VisitDir(f, c, source_dir)


(***************************************************************************)
(* Calls of find_matching_items on small trees                             *)
(***************************************************************************)

\* The longest file name of the trees that are walked.
MaxNameLen == 3

source_dir == << <<"s">> >>

NameAlphabet == {"a", "M", "m", "."}

\* every file name up to the bound; "." and ".." name no file
FileNames ==
  (UNION {[1..k -> NameAlphabet] : k \in 1..MaxNameLen})
    \ {<<".">>, <<".", ".">>}

DirD == <<"d">>
DirE == <<"e">>

\* source_dir with a file, a directory d1 holding the same file name and a
\* directory d3 with one more file, and an empty directory d2
Tree(f, d1, d2, d3) ==
  { DirEntry(source_dir),
    FileEntry(Join(source_dir, f), "x"),
    DirEntry(Join(source_dir, d1)),
    FileEntry(Join(Join(source_dir, d1), f), "y"),
    DirEntry(Join(Join(source_dir, d1), d3)),
    FileEntry(Join(Join(Join(source_dir, d1), d3), <<"a", ".", "m">>), "z"),
    DirEntry(Join(source_dir, d2)) }

ExtChoices ==
  { <<>>,
    << <<".", "m">> >>,
    << <<"M">> >>,
    << <<"a">>, <<".", "M">> >>,
    << <<>> >> }

ExactChoices == { <<>>, << <<"a", ".", "m">> >>, << <<"M">> >> }

ExclusionChoices_None ==
  [exclude_extensions |-> <<>>, exclude_exact |-> <<>>, exclude_contains |-> <<>>]

\* no exclusion, or one of the three kinds
ExclusionChoices ==
  { ExclusionChoices_None,
    [exclude_extensions |-> << <<"m">> >>, exclude_exact |-> <<>>,
     exclude_contains |-> <<>>],
    [exclude_extensions |-> <<>>, exclude_exact |-> << <<"a">> >>,
     exclude_contains |-> <<>>],
    [exclude_extensions |-> <<>>, exclude_exact |-> <<>>,
     exclude_contains |-> << <<"M">> >>] }

FindArgs(ext, exact, contains, excl, incdirs, targets, xdirs, eab, iaf, iad, rec) ==
  [extensions |-> ext, include_dirs |-> incdirs, target_dirs |-> targets,
   recursive |-> rec, contains_extension |-> contains, exact_match |-> exact,
   exclude_extensions |-> excl.exclude_extensions,
   exclude_exact |-> excl.exclude_exact,
   exclude_contains |-> excl.exclude_contains,
   exclude_dirs |-> xdirs, exclude_all_but |-> eab,
   include_all_files |-> iaf, include_all_dirs |-> iad]

\* calls that vary the file name and the criteria on files
FileCalls ==
  /\ \E f \in FileNames : fs = Tree(f, DirD, DirE, DirD)
  /\ \E ext \in ExtChoices, exact \in ExactChoices, excl \in ExclusionChoices,
        contains \in BOOLEAN, eab \in BOOLEAN, iaf \in BOOLEAN, rec \in BOOLEAN,
        dirs \in { <<FALSE, <<>> >>, <<TRUE, <<DirD>> >> } :
       cfg = FindArgs(ext, exact, contains, excl, dirs[1], dirs[2], <<>>,
                      eab, iaf, FALSE, rec)

\* calls that vary the directory names and the criteria on directories
DirCalls ==
  /\ \E d1 \in {DirD, DirE}, d3 \in {DirD, DirE} :
       fs = Tree(<<"a">>, d1, IF d1 = DirD THEN DirE ELSE DirD, d3)
  /\ \E ext \in { <<>>, << <<"m">> >> }, eab \in BOOLEAN, iaf \in BOOLEAN,
        incdirs \in BOOLEAN, iad \in BOOLEAN, rec \in BOOLEAN,
        targets \in { <<>>, <<DirD>>, <<DirE, DirD>> },
        xdirs \in { <<>>, <<DirD>>, <<DirD, DirE>> } :
       cfg = FindArgs(ext, <<>>, FALSE, ExclusionChoices_None, incdirs, targets,
                      xdirs, eab, iaf, iad, rec)

WalkInit ==
  /\ pc = "find"
  /\ pf = <<>>
  /\ pf_pos = 1
  /\ patterns = EmptyPatterns
  /\ (FileCalls \/ DirCalls)
  /\ matched_files = <<>>
  /\ matched_dirs = <<>>
  /\ seen = NothingSeen
  /\ NoMain

\* matched_files, matched_dirs = find_matching_items(...)
CallFind ==
  /\ pc = "find"
  /\ LET r == find_matching_items(fs, cfg, source_dir)
     IN  /\ matched_files' = r.files
         /\ matched_dirs' = r.dirs
         /\ seen' = [files |-> r.seen_files, dirs |-> r.seen_dirs]
  /\ pc' = "found"
  /\ UNCHANGED <<fs, cfg>>
  /\ UNCHANGED parseVars
  /\ UNCHANGED mainVars

WalkNext == CallFind

SpecWalk == WalkInit /\ [][WalkNext]_vars


(***************************************************************************)
(* C10, C9, C2: which files the walk selects                               *)
(***************************************************************************)

\* The notions of the claims, stated without the program's helpers.
\* The extension of a name: from its last dot on, when something other than
\* dots precedes that dot; otherwise there is none.
C10_Ext(n) ==
  LET ks == {k \in 1..Len(n) :
               /\ n[k] = "."
               /\ \A j \in (k + 1)..Len(n) : n[j] # "."
               /\ \E j \in 1..(k - 1) : n[j] # "."}
  IN  IF ks = {} THEN <<>>
      ELSE LET k == CHOOSE x \in ks : TRUE
           IN  [i \in 1..(Len(n) - k + 1) |-> n[k + i - 1]]

C10_Fold(x) == [i \in 1..Len(x) |-> LowerChar(x[i])]

C10_Norm(e) ==
  IF Len(e) > 0 /\ e[1] = "." THEN C10_Fold(e) ELSE <<".">> \o C10_Fold(e)

C10_Occurs(e, x) ==
  \E k \in 0..(Len(x) - Len(e)) : \A i \in 1..Len(e) : x[k + i] = e[i]

C10_Matches(c, f) ==
  \/ c.include_all_files
  \/ \E i \in 1..Len(c.exact_match) : c.exact_match[i] = f
  \/ \E i \in 1..Len(c.extensions) :
       C10_Norm(c.extensions[i]) = C10_Fold(C10_Ext(f))
  \/ /\ c.contains_extension
     /\ \E i \in 1..Len(c.extensions) :
          C10_Occurs(C10_Norm(c.extensions[i]), C10_Fold(f))

C10_OnlyExt(exts, contains) ==
  FindArgs(exts, <<>>, contains, ExclusionChoices_None, FALSE, <<>>, <<>>,
           FALSE, FALSE, FALSE, TRUE)

\* C10: the flag matches_criteria computed for a file of the walk is true
\* exactly when include_all_files holds, or the name is in exact_match, or
\* its case-folded extension is among the normalised extensions, or
\* contains_extension holds and a normalised extension occurs in the
\* case-folded name.  With ['.tmp'], a.tmp and b.TMP match and c.txt does
\* not; report.msg.1 matches '.msg' only with contains_extension (facts
\* about the function alone, evaluated in the states of a call that walked
\* nothing).
C10_MatchesCriteria ==
  /\ pc = "found" =>
       \A i \in 1..Len(seen.files) :
         seen.files[i].matches_criteria
           <=> C10_Matches(cfg, seen.files[i].path[Len(seen.files[i].path)])
  /\ (pc = "found" /\ seen.files = <<>>) =>
     LET tmp == C10_OnlyExt(<< <<".", "t", "m", "p">> >>, FALSE)
         msg == << <<".", "m", "s", "g">> >>
         report == <<"r", "e", "p", "o", "r", "t", ".", "m", "s", "g", ".", "1">>
     IN  /\ file_matches_criteria(tmp, <<"a", ".", "t", "m", "p">>)
         /\ file_matches_criteria(tmp, <<"b", ".", "T", "M", "P">>)
         /\ ~file_matches_criteria(tmp, <<"c", ".", "t", "x", "t">>)
         /\ file_matches_criteria(C10_OnlyExt(msg, TRUE), report)
         /\ ~file_matches_criteria(C10_OnlyExt(msg, FALSE), report)

\* A walk met a file that matches by the substring rule alone, and one whose
\* upper-case extension matches a lower-case one.
C10_Witness ==
  /\ pc = "found"
  /\ ~cfg.include_all_files
  /\ \E i \in 1..Len(seen.files) :
       LET f == seen.files[i].path[Len(seen.files[i].path)]
       IN  /\ seen.files[i].matches_criteria
           /\ cfg.contains_extension
           /\ \A j \in 1..Len(cfg.exact_match) : cfg.exact_match[j] # f
           /\ \A j \in 1..Len(cfg.extensions) :
                C10_Norm(cfg.extensions[j]) # C10_Fold(C10_Ext(f))
           /\ f # C10_Fold(f)

\* The exclusion of a file, stated without the program's helpers.
C9_Excluded(c, f) ==
  \/ \E i \in 1..Len(c.exclude_exact) : c.exclude_exact[i] = f
  \/ \E i \in 1..Len(c.exclude_extensions) :
       C10_Norm(c.exclude_extensions[i]) = C10_Fold(C10_Ext(f))
  \/ \E i \in 1..Len(c.exclude_contains) :
       C10_Occurs(C10_Fold(c.exclude_contains[i]), C10_Fold(f))

C9_Name(r) == r.path[Len(r.path)]

C9_InMatched(p) == \E j \in 1..Len(matched_files) : matched_files[j] = p

\* C9: under exclude_all_but a file of the walk is in matched_files exactly
\* when it matches neither the keep criteria nor an exclusion, and
\* matched_files holds nothing else.
C9_InvertedSelection ==
  (pc = "found" /\ cfg.exclude_all_but) =>
    /\ \A i \in 1..Len(seen.files) :
         C9_InMatched(seen.files[i].path)
           <=> /\ ~C10_Matches(cfg, C9_Name(seen.files[i]))
               /\ ~C9_Excluded(cfg, C9_Name(seen.files[i]))
    /\ \A j \in 1..Len(matched_files) :
         \E i \in 1..Len(seen.files) : seen.files[i].path = matched_files[j]

\* A walk under exclude_all_but that selected one file and left out another
\* that only an exclusion holds back.
C9_Witness ==
  /\ pc = "found"
  /\ cfg.exclude_all_but
  /\ matched_files # <<>>
  /\ \E i \in 1..Len(seen.files) :
       /\ ~C9_InMatched(seen.files[i].path)
       /\ ~C10_Matches(cfg, C9_Name(seen.files[i]))
       /\ C9_Excluded(cfg, C9_Name(seen.files[i]))

\* C2 as claimed: without exclude_all_but a file of the walk is in
\* matched_files exactly when (it matches the criteria, or include_all_files,
\* or no extensions, exact names or target directory names are configured)
\* and it matches no exclusion.
C2_SelectionAsClaimed ==
  (pc = "found" /\ ~cfg.exclude_all_but) =>
    \A i \in 1..Len(seen.files) :
      C9_InMatched(seen.files[i].path)
        <=> /\ \/ C10_Matches(cfg, C9_Name(seen.files[i]))
               \/ cfg.include_all_files
               \/ /\ cfg.extensions = <<>>
                  /\ cfg.exact_match = <<>>
                  /\ cfg.target_dirs = <<>>
            /\ ~C9_Excluded(cfg, C9_Name(seen.files[i]))


(***************************************************************************)
(* process_items                                                           *)
(*                                                                         *)
(* An operation that raises leaves the file system as it stood when it     *)
(* was called.  The operating system refuses every operation on a path of  *)
(* `faulty` (a permission error); the other errors follow from the state   *)
(* of the file system.                                                     *)
(***************************************************************************)

\* os.path.relpath(item_path, source_dir) of a path beneath source_dir
RelPath(p, base) == SubSeq(p, Len(base) + 1, Len(p))

\* os.path.dirname
Dirname(p) == SubSeq(p, 1, Len(p) - 1)

\* os.path.basename
Basename(p) == p[Len(p)]

\* os.makedirs(p): p and every missing directory above it
MakeDirs(f, p) ==
  f \cup {DirEntry(SubSeq(p, 1, k)) : k \in {j \in 1..Len(p) : ~Exists(f, SubSeq(p, 1, j))}}

\* the entries at and beneath `from`, placed at and beneath `to`
Rebase(f, from, to) ==
  {[e EXCEPT !.path = to \o RelPath(e.path, from)] : e \in Subtree(f, from)}

Raised(f, msg) == [fs |-> f, error |-> msg]
Done(f) == [fs |-> f, error |-> "none"]

\* shutil.rmtree(item_path) and os.remove(item_path)
Delete(f, item_path, is_dirs, bad) ==
  IF is_dirs
    THEN IF ~IsDir(f, item_path) THEN Raised(f, "No such file or directory")
         ELSE IF \E e \in Subtree(f, item_path) : e.path \in bad
           THEN Raised(f, "Permission denied")
         ELSE Done(f \ Subtree(f, item_path))
    ELSE IF ~IsFile(f, item_path) THEN Raised(f, "No such file or directory")
         ELSE IF item_path \in bad THEN Raised(f, "Permission denied")
         ELSE Done(f \ Subtree(f, item_path))

\* shutil.copytree(item_path, dest_item_path) and shutil.copy2
Copy(f, item_path, dest_item_path, is_dirs, bad) ==
  IF is_dirs
    THEN IF ~IsDir(f, item_path) THEN Raised(f, "No such file or directory")
         ELSE IF \E e \in Subtree(f, item_path) : e.path \in bad
           THEN Raised(f, "Permission denied")
         ELSE IF Exists(f, dest_item_path) THEN Raised(f, "File exists")
         ELSE Done(f \cup Rebase(f, item_path, dest_item_path))
    ELSE IF ~IsFile(f, item_path) THEN Raised(f, "No such file or directory")
         ELSE IF item_path \in bad THEN Raised(f, "Permission denied")
         ELSE LET to == IF IsDir(f, dest_item_path)
                          THEN Join(dest_item_path, Basename(item_path))
                          ELSE dest_item_path
              IN  IF IsDir(f, to) THEN Raised(f, "Is a directory")
                  ELSE Done({e \in f : e.path # to} \cup Rebase(f, item_path, to))

\* shutil.move(item_path, dest_item_path)
Move(f, item_path, dest_item_path, bad) ==
  LET real_dst == IF IsDir(f, dest_item_path)
                    THEN Join(dest_item_path, Basename(item_path))
                    ELSE dest_item_path
  IN  IF IsDir(f, dest_item_path) /\ Exists(f, real_dst)
        THEN Raised(f, "Destination path already exists")
      ELSE IF ~Exists(f, item_path) THEN Raised(f, "No such file or directory")
      ELSE IF \E e \in Subtree(f, item_path) : e.path \in bad
        THEN Raised(f, "Permission denied")
      ELSE IF IsDir(f, item_path) /\ Exists(f, real_dst)
        THEN Raised(f, "File exists")
      ELSE Done(((f \ Subtree(f, item_path)) \ {e \in f : e.path = real_dst})
                  \cup Rebase(f, item_path, real_dst))

\* the destination parent is made when it does not exist, then the copy or
\* the move is attempted
WithParent(f, dest_item_path) ==
  IF Exists(f, Dirname(dest_item_path)) THEN f
  ELSE MakeDirs(f, Dirname(dest_item_path))

\* The body of the try block for one item that is not a dry run.
Operate(f, operation, item_path, dest, is_dirs, bad) ==
  LET rel_path == RelPath(item_path, source_dir)
  IN  IF operation = "delete" THEN Delete(f, item_path, is_dirs, bad)
      ELSE IF operation = "copy"
        THEN Copy(WithParent(f, dest \o rel_path), item_path, dest \o rel_path,
                  is_dirs, bad)
      ELSE Move(WithParent(f, dest \o rel_path), item_path, dest \o rel_path, bad)

\* one pass of the loop: nothing is touched in a dry run
AttemptBug(f, a, item_path, is_dirs, bad) ==
  IF a.dry_run /\ a.operation = "delete" THEN Done(f)
  ELSE Operate(f, a.operation, item_path, a.dest_dir, is_dirs, bad)

Attempt(f, a, item_path, is_dirs, bad) ==
  IF a.dry_run THEN Done(f)
  ELSE Operate(f, a.operation, item_path, a.dest_dir, is_dirs, bad)

\* processed_count and errors after one pass of the loop
CountedBug(b, error) ==
  IF error = "none"
    THEN [b EXCEPT !.processed_count = @ + 1, !.idx = @ + 1]
    ELSE [b EXCEPT !.errors = Append(@, <<b.items[b.idx], error>>),
                   !.processed_count = @ + 1, !.idx = @ + 1]

Counted(b, error) ==
  IF error = "none"
    THEN [b EXCEPT !.processed_count = @ + 1, !.idx = @ + 1]
    ELSE [b EXCEPT !.errors = Append(@, <<b.items[b.idx], error>>), !.idx = @ + 1]

\* the call process_items(operation, items, ...): its locals at entry
NewBatch(items, is_dirs) ==
  [items |-> items, is_dirs |-> is_dirs, idx |-> 1, processed_count |-> 0,
   errors |-> <<>>]


(***************************************************************************)
(* main                                                                    *)
(***************************************************************************)

\* parser.error(...) prints the usage and ends the process with status 2.
ParserErrorStatus == 2

dest_dir == << <<"o">> >>

\* args.dest_dir when --dest_dir is not given
NoDest == <<>>

\* f"{source_dir}_backup_{timestamp}"
backup_dir == << <<"s", "_", "b">> >>

\* shutil.copytree(source_dir, backup_dir), refused as well when backup_dir
\* cannot be written
create_backup(f, bad) ==
  IF backup_dir \in bad THEN Raised(f, "Permission denied")
  ELSE Copy(f, source_dir, backup_dir, TRUE, bad)

\* the count of the pattern exclusion flags that are set
pattern_exclusion_flags(a) ==
  (IF a.patterns_exclude THEN 1 ELSE 0)
    + (IF a.patterns_excludeFiles THEN 1 ELSE 0)
    + (IF a.patterns_excludeDirs THEN 1 ELSE 0)

\* main's locals before the patterns file is looked at.  include_all_dirs is
\* assigned in two branches only; the call passes False when it is not.
InitialLocals(a) ==
  [exclude_dirs |-> <<>>,
   include_all_files |-> FALSE,
   include_all_dirs |-> FALSE,
   has_inclusion_criteria |->
     \/ a.extensions # <<>>
     \/ a.exact_match # <<>>
     \/ (a.include_dirs /\ a.target_dirs # <<>>),
   has_exclusion_criteria |->
     \/ a.exclude_extensions # <<>>
     \/ a.exclude_exact # <<>>
     \/ a.exclude_contains # <<>>]

\* --patterns-exclude
ResolveExclude(a, l, fp) ==
  [args |-> [a EXCEPT
       !.exclude_extensions =
          IF fp.extensions # <<>> THEN fp.extensions \o @ ELSE @,
       !.exclude_exact = IF fp.exact # <<>> THEN fp.exact \o @ ELSE @,
       !.exclude_contains = IF fp.contains # <<>> THEN fp.contains \o @ ELSE @],
   loc |-> [l EXCEPT
       !.include_all_files = TRUE,
       !.include_all_dirs = TRUE,
       !.has_inclusion_criteria = TRUE,
       !.exclude_dirs = IF fp.directories # <<>> THEN fp.directories ELSE @]]

\* --patterns-excludeFiles
ResolveExcludeFiles(a, l, fp) ==
  [args |-> [a EXCEPT
       !.exclude_extensions =
          IF fp.extensions # <<>> THEN fp.extensions \o @ ELSE @,
       !.exclude_exact = IF fp.exact # <<>> THEN fp.exact \o @ ELSE @,
       !.exclude_contains = IF fp.contains # <<>> THEN fp.contains \o @ ELSE @,
       !.include_dirs = IF fp.directories # <<>> THEN TRUE ELSE @,
       !.target_dirs = IF fp.directories # <<>> THEN fp.directories \o @ ELSE @],
   loc |-> [l EXCEPT
       !.has_exclusion_criteria =
          @ \/ fp.extensions # <<>> \/ fp.exact # <<>> \/ fp.contains # <<>>,
       !.has_inclusion_criteria = @ \/ fp.directories # <<>>]]

\* --patterns-excludeDirs
ResolveExcludeDirsBug(a, l, fp) ==
  [args |-> [a EXCEPT
       !.extensions = IF fp.extensions # <<>> THEN fp.extensions \o @ ELSE @,
       !.exact_match = IF fp.exact # <<>> THEN fp.exact \o @ ELSE @,
       !.exclude_contains = IF fp.contains # <<>> THEN fp.contains \o @ ELSE @],
   loc |-> [l EXCEPT
       !.include_all_files = TRUE,
       !.include_all_dirs = TRUE,
       !.has_inclusion_criteria = TRUE,
       !.exclude_dirs = IF fp.directories # <<>> THEN fp.directories ELSE @]]

ResolveExcludeDirs(a, l, fp) ==
  [args |-> [a EXCEPT
       !.extensions = IF fp.extensions # <<>> THEN fp.extensions \o @ ELSE @,
       !.exact_match = IF fp.exact # <<>> THEN fp.exact \o @ ELSE @],
   loc |-> [l EXCEPT
       !.include_all_files = TRUE,
       !.include_all_dirs = TRUE,
       !.has_inclusion_criteria = TRUE,
       !.exclude_dirs = IF fp.directories # <<>> THEN fp.directories ELSE @]]

\* none of the three flags: the patterns are inclusions
ResolveNormal(a, l, fp) ==
  LET take_ext == fp.extensions # <<>> /\ (a.patterns_override \/ a.extensions = <<>>)
      take_exact == fp.exact # <<>> /\ (a.patterns_override \/ a.exact_match = <<>>)
  IN  [args |-> [a EXCEPT
         !.extensions =
            IF take_ext
              THEN fp.extensions \o (IF a.patterns_override THEN <<>> ELSE @)
              ELSE @,
         !.exact_match =
            IF take_exact
              THEN fp.exact \o (IF a.patterns_override THEN <<>> ELSE @)
              ELSE @,
         !.exclude_contains = IF fp.contains # <<>> THEN fp.contains \o @ ELSE @,
         !.include_dirs = IF fp.directories # <<>> THEN TRUE ELSE @,
         !.target_dirs =
            IF fp.directories # <<>>
              THEN fp.directories \o (IF a.patterns_override THEN <<>> ELSE @)
              ELSE @],
       loc |-> [l EXCEPT
         !.has_inclusion_criteria =
            @ \/ take_ext \/ take_exact \/ fp.directories # <<>>,
         !.has_exclusion_criteria = @ \/ fp.contains # <<>>]]

\* the branch on the mode, with the parsed patterns file
Resolve(a, l, fp) ==
  IF a.patterns_exclude THEN ResolveExclude(a, l, fp)
  ELSE IF a.patterns_excludeFiles THEN ResolveExcludeFiles(a, l, fp)
  ELSE IF a.patterns_excludeDirs THEN ResolveExcludeDirs(a, l, fp)
  ELSE ResolveNormal(a, l, fp)

\* the four checks after the resolution, each a parser.error
CriteriaRejected(a, l) ==
  \/ /\ ~l.include_all_files
     /\ ~a.exclude_all_but
     /\ ~l.has_inclusion_criteria
     /\ ~l.has_exclusion_criteria
  \/ (a.exclude_all_but /\ ~l.has_inclusion_criteria)
  \/ (a.include_dirs /\ a.target_dirs = <<>>)
  \/ (a.contains_extension /\ a.extensions = <<>>)

\* the arguments of the call of find_matching_items in main
CallArgs(a, l) ==
  [extensions |-> a.extensions, include_dirs |-> a.include_dirs,
   target_dirs |-> a.target_dirs, recursive |-> ~a.no_recursive,
   contains_extension |-> a.contains_extension, exact_match |-> a.exact_match,
   exclude_extensions |-> a.exclude_extensions,
   exclude_exact |-> a.exclude_exact,
   exclude_contains |-> a.exclude_contains,
   exclude_dirs |-> l.exclude_dirs, exclude_all_but |-> a.exclude_all_but,
   include_all_files |-> l.include_all_files,
   include_all_dirs |-> l.include_all_dirs]

\* parser.error(...): the process ends at once
ParserError ==
  /\ pc' = "parser_error"
  /\ exit_code' = ParserErrorStatus

\* main returns before the items are processed; sys.exit(main()) makes the
\* value the exit status
Return(code) ==
  /\ pc' = "returned"
  /\ exit_code' = code

\* the value main returns after the two calls of process_items
FinalStatusBug(all_errors) == 0

FinalStatus(all_errors) == IF Len(all_errors) = 0 THEN 0 ELSE 1

\* the checks on the operation and on the pattern exclusion flags
CheckArgs ==
  /\ pc = "main"
  /\ IF args.operation \in {"copy", "move"} /\ args.dest_dir = NoDest
       THEN ParserError
     ELSE IF pattern_exclusion_flags(args) > 1
       THEN ParserError
     ELSE pc' = "resolve" /\ UNCHANGED exit_code
  /\ UNCHANGED <<argv, args, loc, batch, outcome, fs0, faulty, attempts>>
  /\ UNCHANGED parseVars
  /\ UNCHANGED walkVars

\* the patterns file is parsed and merged into args and the locals
ResolvePatterns ==
  /\ pc = "resolve"
  /\ IF args.patterns_file = "None"
       THEN /\ loc' = InitialLocals(args)
            /\ pc' = "validate"
            /\ UNCHANGED <<args, patterns, exit_code>>
     ELSE IF Returns_None(args.patterns_file)
       THEN /\ loc' = InitialLocals(args)
            /\ Return(1)
            /\ UNCHANGED <<args, patterns>>
     ELSE LET file_patterns == parse_patterns_file(args.patterns_file, pf)
              r == Resolve(args, InitialLocals(args), file_patterns)
          IN  /\ patterns' = file_patterns
              /\ args' = r.args
              /\ loc' = r.loc
              /\ pc' = "validate"
              /\ UNCHANGED exit_code
  /\ UNCHANGED <<argv, batch, outcome, fs0, faulty, attempts, pf, pf_pos>>
  /\ UNCHANGED walkVars

\* the checks on the resolved criteria
ValidateCriteria ==
  /\ pc = "validate"
  /\ IF CriteriaRejected(args, loc)
       THEN ParserError
       ELSE pc' = "source" /\ UNCHANGED exit_code
  /\ UNCHANGED <<argv, args, loc, batch, outcome, fs0, faulty, attempts>>
  /\ UNCHANGED parseVars
  /\ UNCHANGED walkVars

\* the source directory must exist
CheckSource ==
  /\ pc = "source"
  /\ IF ~IsDir(fs, source_dir)
       THEN Return(1)
       ELSE pc' = "dest" /\ UNCHANGED exit_code
  /\ UNCHANGED <<argv, args, loc, batch, outcome, fs0, faulty, attempts>>
  /\ UNCHANGED parseVars
  /\ UNCHANGED walkVars

\* a missing destination directory is made when the user agrees
PrepareDest ==
  /\ pc = "dest"
  /\ IF args.dest_dir # NoDest /\ ~Exists(fs, args.dest_dir) /\ ~args.dry_run
       THEN \E create_dest \in {"y", "n"} :
              IF create_dest = "y" /\ args.dest_dir \notin faulty
                THEN /\ fs' = MakeDirs(fs, args.dest_dir)
                     /\ pc' = "backup"
                     /\ UNCHANGED exit_code
                ELSE Return(1) /\ UNCHANGED fs
       ELSE pc' = "backup" /\ UNCHANGED <<fs, exit_code>>
  /\ UNCHANGED <<argv, args, loc, batch, outcome, fs0, faulty, attempts>>
  /\ UNCHANGED <<cfg, matched_files, matched_dirs, seen>>
  /\ UNCHANGED parseVars

\* create_backup copies the source tree; when that fails the user decides
Backup ==
  /\ pc = "backup"
  /\ IF args.backup /\ ~args.dry_run
       THEN IF create_backup(fs, faulty).error = "none"
              THEN /\ fs' = create_backup(fs, faulty).fs
                   /\ pc' = "mainfind"
                   /\ UNCHANGED exit_code
              ELSE \E confirm \in {"y", "n"} :
                     /\ IF confirm = "y"
                          THEN pc' = "mainfind" /\ UNCHANGED exit_code
                          ELSE Return(1)
                     /\ UNCHANGED fs
       ELSE pc' = "mainfind" /\ UNCHANGED <<fs, exit_code>>
  /\ UNCHANGED <<argv, args, loc, batch, outcome, fs0, faulty, attempts>>
  /\ UNCHANGED <<cfg, matched_files, matched_dirs, seen>>
  /\ UNCHANGED parseVars

\* the call of find_matching_items, and the return when nothing matched
FindItems ==
  /\ pc = "mainfind"
  /\ LET r == find_matching_items(fs, CallArgs(args, loc), source_dir)
     IN  /\ cfg' = CallArgs(args, loc)
         /\ matched_files' = r.files
         /\ matched_dirs' = r.dirs
         /\ seen' = [files |-> r.seen_files, dirs |-> r.seen_dirs]
         /\ IF Len(r.files) + Len(r.dirs) = 0
              THEN Return(0)
              ELSE pc' = "confirm" /\ UNCHANGED exit_code
  /\ UNCHANGED <<argv, args, loc, batch, outcome, fs0, faulty, attempts, fs>>
  /\ UNCHANGED parseVars

\* the confirmation, then the call of process_items on the files
Confirm ==
  /\ pc = "confirm"
  /\ \E confirm \in {"y", "n"} :
       IF ~args.dry_run /\ ~args.no_confirm /\ confirm # "y"
         THEN Return(0) /\ UNCHANGED batch
         ELSE /\ batch' = NewBatch(matched_files, FALSE)
              /\ pc' = "files"
              /\ UNCHANGED exit_code
  /\ UNCHANGED <<argv, args, loc, outcome, fs0, faulty, attempts>>
  /\ UNCHANGED parseVars
  /\ UNCHANGED walkVars

\* one pass of the loop of process_items
ProcessItem ==
  /\ pc \in {"files", "dirs"}
  /\ batch.idx <= Len(batch.items)
  /\ LET item_path == batch.items[batch.idx]
         r == Attempt(fs, args, item_path, batch.is_dirs, faulty)
     IN  /\ fs' = r.fs
         /\ batch' = Counted(batch, r.error)
         /\ attempts' = Append(attempts,
              [path |-> item_path, is_dirs |-> batch.is_dirs,
               found |-> Subtree(fs, item_path), error |-> r.error])
  /\ UNCHANGED <<pc, argv, args, loc, outcome, exit_code, fs0, faulty>>
  /\ UNCHANGED <<cfg, matched_files, matched_dirs, seen>>
  /\ UNCHANGED parseVars

\* process_items returns for the files and is called on the directories
FilesDone_Early ==
  /\ pc = "files"
  /\ outcome' = [outcome EXCEPT !.files_processed = batch.processed_count,
                                !.file_errors = batch.errors]
  /\ batch' = NewBatch(matched_dirs, TRUE)
  /\ pc' = "dirs"
  /\ UNCHANGED <<argv, args, loc, exit_code, fs0, faulty, attempts>>
  /\ UNCHANGED parseVars
  /\ UNCHANGED walkVars

FilesDone ==
  /\ pc = "files"
  /\ batch.idx > Len(batch.items)
  /\ outcome' = [outcome EXCEPT !.files_processed = batch.processed_count,
                                !.file_errors = batch.errors]
  /\ batch' = NewBatch(matched_dirs, TRUE)
  /\ pc' = "dirs"
  /\ UNCHANGED <<argv, args, loc, exit_code, fs0, faulty, attempts>>
  /\ UNCHANGED parseVars
  /\ UNCHANGED walkVars

\* process_items returns for the directories; the summary and the status
DirsDone ==
  /\ pc = "dirs"
  /\ batch.idx > Len(batch.items)
  /\ outcome' = [outcome EXCEPT !.dirs_processed = batch.processed_count,
                                !.dir_errors = batch.errors]
  /\ LET all_errors == outcome.file_errors \o batch.errors
     IN  /\ pc' = "finished"
         /\ exit_code' = FinalStatus(all_errors)
  /\ UNCHANGED <<argv, args, loc, batch, fs0, faulty, attempts>>
  /\ UNCHANGED parseVars
  /\ UNCHANGED walkVars

Next ==
  \/ CheckArgs
  \/ ResolvePatterns
  \/ ValidateCriteria
  \/ CheckSource
  \/ PrepareDest
  \/ Backup
  \/ FindItems
  \/ Confirm
  \/ ProcessItem
  \/ FilesDone
  \/ DirsDone


(***************************************************************************)
(* The runs of main that are checked                                       *)
(***************************************************************************)

NameAT == <<"a", ".", "t">>
NameBT == <<"b", ".", "t">>
NameCT == <<"c", ".", "t">>

\* the source tree of the runs: s/a.t, s/b.t, s/d/c.t and the directory s/d/e
RunTree ==
  { DirEntry(source_dir),
    FileEntry(Join(source_dir, NameAT), "1"),
    FileEntry(Join(source_dir, NameBT), "2"),
    DirEntry(Join(source_dir, DirD)),
    FileEntry(Join(Join(source_dir, DirD), NameCT), "3"),
    DirEntry(Join(Join(source_dir, DirD), DirE)) }

\* the command line `delete` with nothing else, answered without a prompt
DefaultArgs ==
  [operation |-> "delete", extensions |-> <<>>, contains_extension |-> FALSE,
   exact_match |-> <<>>, include_dirs |-> FALSE, target_dirs |-> <<>>,
   patterns_file |-> "None", patterns_exclude |-> FALSE,
   patterns_excludeFiles |-> FALSE, patterns_excludeDirs |-> FALSE,
   patterns_override |-> FALSE, exclude_extensions |-> <<>>,
   exclude_exact |-> <<>>, exclude_contains |-> <<>>,
   exclude_all_but |-> FALSE, dest_dir |-> NoDest, no_recursive |-> FALSE,
   no_confirm |-> TRUE, dry_run |-> FALSE, backup |-> FALSE]

\* the lines a patterns file is made of, one of each category
PatternLines ==
  << <<".", "t">>, <<"d", "/">>, <<"*", "b">>, <<"a", ".", "t">> >>

RECURSIVE Pick(_, _)
Pick(lines, S) ==
  IF lines = <<>> THEN <<>>
  ELSE (IF Len(lines) \in S THEN <<lines[Len(lines)]>> ELSE <<>>)
         \o Pick(SubSeq(lines, 1, Len(lines) - 1), S)

\* no patterns file, a missing one, or one with any of the lines
PatternsFileCases ==
  { <<"None", <<>> >>, <<NoSuchFile, <<>> >> }
    \cup { <<PatternsPath, Pick(PatternLines, S)>> :
             S \in SUBSET (1..Len(PatternLines)) }

\* Command lines that vary what is resolved: the mode flags, the override,
\* the criteria of the command line and the patterns file.
ResolveCases ==
  { [DefaultArgs EXCEPT
       !.patterns_file = file[1],
       !.patterns_exclude = pe, !.patterns_excludeFiles = pxf,
       !.patterns_excludeDirs = pxd, !.patterns_override = over,
       !.exclude_all_but = eab, !.contains_extension = contains,
       !.include_dirs = incdirs,
       !.extensions = ext, !.exact_match = exact, !.target_dirs = targets,
       !.exclude_contains = xc] :
     file \in {<<"None">>, <<NoSuchFile>>, <<PatternsPath>>},
     pe \in BOOLEAN, pxf \in BOOLEAN, pxd \in BOOLEAN, over \in BOOLEAN,
     eab \in BOOLEAN, contains \in BOOLEAN, incdirs \in BOOLEAN,
     ext \in { <<>>, << <<"m">> >> },
     exact \in { <<>>, << NameCT >> },
     targets \in { <<>>, <<DirE>> },
     xc \in { <<>>, << <<"c">> >> } }

\* Command lines that vary the operation and how it is carried out, with
\* three sets of criteria: an extension; an extension and a directory name;
\* everything, by an empty patterns file under --patterns-exclude.
RunCases ==
  { [DefaultArgs EXCEPT
       !.operation = op, !.dest_dir = dest, !.dry_run = dry, !.backup = bak,
       !.no_confirm = noc, !.no_recursive = norec,
       !.extensions = crit[1], !.include_dirs = crit[2],
       !.target_dirs = crit[3],
       !.patterns_file = IF crit[4] THEN PatternsPath ELSE "None",
       !.patterns_exclude = crit[4]] :
     op \in {"delete", "copy", "move"}, dest \in {NoDest, dest_dir},
     dry \in BOOLEAN, bak \in BOOLEAN, noc \in BOOLEAN, norec \in BOOLEAN,
     crit \in { << << <<"t">> >>, FALSE, <<>>, FALSE >>,
                << << <<"t">> >>, TRUE, <<DirD, DirE>>, FALSE >>,
                << <<>>, FALSE, <<>>, TRUE >> } }

\* the paths an operation may be refused on
FaultyPaths ==
  { Join(source_dir, NameAT),
    Join(Join(source_dir, DirD), NameCT),
    Join(Join(source_dir, DirD), DirE),
    dest_dir,
    backup_dir }

MainStart ==
  /\ pc = "main"
  /\ argv = args
  /\ loc = "None"
  /\ batch = "None"
  /\ outcome = [files_processed |-> 0, file_errors |-> <<>>,
                dirs_processed |-> 0, dir_errors |-> <<>>]
  /\ exit_code = "None"
  /\ fs0 = fs
  /\ attempts = <<>>
  /\ pf_pos = 1
  /\ patterns = "None"
  /\ cfg = "None"
  /\ matched_files = <<>>
  /\ matched_dirs = <<>>
  /\ seen = NothingSeen

\* runs on the source tree that vary the resolution
ResolveRuns ==
  /\ args \in ResolveCases
  /\ \E c \in PatternsFileCases : c[1] = args.patterns_file /\ pf = c[2]
  /\ fs = RunTree
  /\ faulty = {}

\* the destination before the run: missing, empty, or holding a directory
\* with the name of a file of the source tree
DestCases ==
  { {},
    {DirEntry(dest_dir)},
    {DirEntry(dest_dir), DirEntry(Join(dest_dir, NameAT))} }

\* runs that vary the operation, the destination and the refused paths
OperationRuns ==
  /\ args \in RunCases
  /\ pf = <<>>
  /\ \E dest \in DestCases : fs = RunTree \cup dest
  /\ faulty \in SUBSET FaultyPaths

\* runs whose source directory does not exist
NoSourceRuns ==
  /\ args \in {a \in RunCases : a.dry_run /\ ~a.backup}
  /\ pf = <<>>
  /\ fs = {}
  /\ faulty = {}

\* Command lines whose criteria do not pass the validation, for every
\* operation, with and without --backup and --dry-run: no criteria at all,
\* --exclude-all-but alone, --include-dirs without names,
\* --contains-extension without extensions, two mode flags.
InvalidCases ==
  { [DefaultArgs EXCEPT
       !.operation = op, !.dest_dir = dest_dir, !.dry_run = dry, !.backup = bak,
       !.exclude_all_but = (bad = "exclude_all_but"),
       !.include_dirs = (bad = "include_dirs"),
       !.contains_extension = (bad = "contains_extension"),
       !.extensions = IF bad = "include_dirs" THEN << <<"t">> >> ELSE <<>>,
       !.exact_match =
          IF bad \in {"contains_extension", "flags"} THEN <<NameAT>> ELSE <<>>,
       !.patterns_file = IF bad = "flags" THEN PatternsPath ELSE "None",
       !.patterns_exclude = (bad = "flags"),
       !.patterns_excludeDirs = (bad = "flags")] :
     op \in {"delete", "copy", "move"}, dry \in BOOLEAN, bak \in BOOLEAN,
     bad \in {"none", "exclude_all_but", "include_dirs", "contains_extension",
              "flags"} }

\* runs that fail the validation, on a source tree without the destination
InvalidRuns ==
  /\ args \in InvalidCases
  /\ pf = <<>>
  /\ fs = RunTree
  /\ faulty = {}

Init ==
  /\ (ResolveRuns \/ OperationRuns \/ NoSourceRuns \/ InvalidRuns)
  /\ MainStart

Spec == Init /\ [][Next]_vars


(***************************************************************************)
(* C1, C8: the resolved criteria                                           *)
(***************************************************************************)

C1_Has(lst, x) == \E i \in 1..Len(lst) : lst[i] = x

\* the resolved list holds the entries of the patterns file and those of the
\* command line; under the override it is the list of the patterns file
C1_Merged(resolved, from_file, from_cli) ==
  IF argv.patterns_override
    THEN from_file # <<>> => resolved = from_file
    ELSE /\ \A i \in 1..Len(from_file) : C1_Has(resolved, from_file[i])
         /\ \A i \in 1..Len(from_cli) : C1_Has(resolved, from_cli[i])

\* C1 as claimed: in normal mode, once the patterns file is merged, each of
\* extensions, exact names and target directory names holds every entry of
\* the patterns file and every entry of the command line, also when the
\* command line gave some; under the override it holds the entries of the
\* patterns file only (read here as: whenever the file has entries of the
\* category).
C1_SupplementAsClaimed ==
  (/\ pc = "validate"
   /\ argv.patterns_file = PatternsPath
   /\ ~argv.patterns_exclude
   /\ ~argv.patterns_excludeFiles
   /\ ~argv.patterns_excludeDirs) =>
    /\ C1_Merged(args.extensions, patterns.extensions, argv.extensions)
    /\ C1_Merged(args.exact_match, patterns.exact, argv.exact_match)
    /\ C1_Merged(args.target_dirs, patterns.directories, argv.target_dirs)

\* C8 as claimed: a walk under exclude_all_but has a non-empty extensions,
\* exact_match or target_dirs; a run with exclude_all_but and none of them
\* ends in a validation error and walks nothing.
C8_KeepCriteriaAsClaimed ==
  (seen # NothingSeen /\ cfg.exclude_all_but) =>
    \/ cfg.extensions # <<>>
    \/ cfg.exact_match # <<>>
    \/ cfg.target_dirs # <<>>

(***************************************************************************)
(* C3, C4, C5: the items as process_items meets them                       *)
(***************************************************************************)

\* C3 as claimed: every item is, when its operation is attempted, as the
\* walk enumerated it: what is at and beneath its path is what was there at
\* the start of the run.
C3_ItemsAsEnumerated ==
  \A i \in 1..Len(attempts) :
    attempts[i].found = Subtree(fs0, attempts[i].path)

\* the attempts of the call of process_items that is running
C4_Tried == SelectSeq(attempts, LAMBDA t : t.is_dirs = batch.is_dirs)

C4_Failed(tried) == SelectSeq(tried, LAMBDA t : t.error # "none")

\* C4: in every call of process_items the items are attempted one after the
\* other whatever failed before; each failing item adds its one pair (path,
\* message) to errors, in item order; processed_count is the number of items
\* that did not fail, and processed_count + len(errors) is the number of
\* items attempted, which at the return is the number of items.  A deleted
\* file that did not fail is gone.
C4_FailuresDoNotStopTheBatch ==
  /\ pc \in {"files", "dirs"} =>
       LET tried == C4_Tried
           failed == C4_Failed(tried)
       IN  /\ Len(tried) = batch.idx - 1
           /\ batch.idx - 1 <= Len(batch.items)
           /\ \A i \in 1..Len(tried) : tried[i].path = batch.items[i]
           /\ Len(batch.errors) = Len(failed)
           /\ \A i \in 1..Len(failed) :
                batch.errors[i] = <<failed[i].path, failed[i].error>>
           /\ batch.processed_count = Len(tried) - Len(failed)
           /\ batch.processed_count + Len(batch.errors) = batch.idx - 1
  /\ pc = "finished" =>
       /\ outcome.files_processed + Len(outcome.file_errors) = Len(matched_files)
       /\ outcome.dirs_processed + Len(outcome.dir_errors) = Len(matched_dirs)
       /\ Len(attempts) = Len(matched_files) + Len(matched_dirs)
  /\ (pc = "files" /\ args.operation = "delete" /\ ~args.dry_run) =>
       \A i \in 1..Len(attempts) :
         attempts[i].error = "none" => ~Exists(fs, attempts[i].path)

\* A delete of three files of which the first alone failed: two processed,
\* one error, and the other two files are gone.
C4_Witness ==
  /\ pc = "dirs"
  /\ args.operation = "delete"
  /\ Len(matched_files) = 3
  /\ outcome.files_processed = 2
  /\ Len(outcome.file_errors) = 1
  /\ outcome.file_errors[1][1] = matched_files[1]
  /\ Exists(fs, matched_files[1])
  /\ ~Exists(fs, matched_files[2])
  /\ ~Exists(fs, matched_files[3])

\* C5: under dry_run nothing in the file system changes at any point of the
\* run (no backup, no destination directory, no item touched), no attempt
\* fails, and at the end every matched item is counted as processed and
\* errors is empty.
C5_DryRunTouchesNothing ==
  argv.dry_run =>
    /\ fs = fs0
    /\ \A i \in 1..Len(attempts) : attempts[i].error = "none"
    /\ pc = "finished" =>
         /\ outcome.files_processed = Len(matched_files)
         /\ outcome.dirs_processed = Len(matched_dirs)
         /\ outcome.file_errors = <<>>
         /\ outcome.dir_errors = <<>>

\* A finished dry run of a copy with --backup, to a destination that does not
\* exist, of three files and two directories, with paths that refuse access.
C5_Witness ==
  /\ pc = "finished"
  /\ argv.dry_run
  /\ argv.backup
  /\ argv.operation = "copy"
  /\ ~Exists(fs, dest_dir)
  /\ faulty # {}
  /\ Len(matched_files) = 3
  /\ Len(matched_dirs) = 2
  /\ outcome.files_processed = 3
  /\ outcome.dirs_processed = 2

(***************************************************************************)
(* C6: the exit status                                                     *)
(***************************************************************************)

\* the failures main looks for before it resolves the patterns
C6_ArgsInvalid ==
  \/ (argv.operation \in {"copy", "move"} /\ argv.dest_dir = NoDest)
  \/ Cardinality({k \in {"patterns_exclude", "patterns_excludeFiles",
                         "patterns_excludeDirs"} : argv[k]}) > 1

\* the failures main looks for in the resolved criteria
C6_CriteriaInvalid ==
  \/ /\ ~loc.include_all_files /\ ~args.exclude_all_but
     /\ ~loc.has_inclusion_criteria /\ ~loc.has_exclusion_criteria
  \/ (args.exclude_all_but /\ ~loc.has_inclusion_criteria)
  \/ (args.include_dirs /\ args.target_dirs = <<>>)
  \/ (args.contains_extension /\ args.extensions = <<>>)

C6_Ended == pc \in {"parser_error", "returned", "finished"}

\* the run is past the validation of the resolved criteria
C6_Validated ==
  /\ ~C6_ArgsInvalid
  /\ argv.patterns_file # NoSuchFile
  /\ pc \notin {"main", "resolve", "validate"}

\* C6, amended: a run that processed its items ends with status 0 when the
\* errors of the files followed by those of the directories are empty and
\* with 1 otherwise; every validation failure main detects before that
\* (conflicting mode flags, copy or move without dest_dir, no criteria,
\* exclude_all_but without inclusion criteria, include_dirs without target
\* names, contains_extension without extensions) ends the run in
\* parser.error with status 2, before anything is attempted.
C6_ExitStatus ==
  /\ pc = "finished" =>
       exit_code = IF outcome.file_errors \o outcome.dir_errors = <<>>
                     THEN 0 ELSE 1
  /\ (C6_Ended /\ C6_ArgsInvalid) => pc = "parser_error"
  /\ (C6_Validated /\ C6_CriteriaInvalid) => pc = "parser_error"
  /\ pc = "parser_error" =>
       /\ exit_code = 2
       /\ attempts = <<>>
       /\ (C6_ArgsInvalid \/ C6_CriteriaInvalid)

\* A run that ended in the validation of the criteria: exclude_all_but with
\* nothing to keep.
C6_Witness ==
  /\ pc = "parser_error"
  /\ ~C6_ArgsInvalid
  /\ args.exclude_all_but
  /\ ~loc.has_inclusion_criteria
  /\ exit_code = 2

\* C6 as claimed: the status is 0 for an empty error list and 1 otherwise,
\* and 1 for every validation failure before execution.
C6_StatusAsClaimed ==
  /\ pc = "finished" =>
       exit_code = IF outcome.file_errors \o outcome.dir_errors = <<>>
                     THEN 0 ELSE 1
  /\ pc = "parser_error" => exit_code = 1


(***************************************************************************)
(* C11, C12: the modes --patterns-exclude and --patterns-excludeDirs        *)
(***************************************************************************)

\* the run is in the given mode alone, with a patterns file that was parsed,
\* and the resolution has just been done
C11_Resolved(mode) ==
  /\ pc = "validate"
  /\ argv.patterns_file = PatternsPath
  /\ argv[mode]
  /\ \A k \in {"patterns_exclude", "patterns_excludeFiles",
               "patterns_excludeDirs"} : k # mode => ~argv[k]

\* the resolution of --patterns-exclude: every category of the patterns file
\* goes to its exclusion list, in front of what the command line gave; no
\* inclusion list changes; both include-all flags are set
C11_AllExclusions ==
  C11_Resolved("patterns_exclude") =>
    /\ args.exclude_extensions = patterns.extensions \o argv.exclude_extensions
    /\ args.exclude_exact = patterns.exact \o argv.exclude_exact
    /\ args.exclude_contains = patterns.contains \o argv.exclude_contains
    /\ loc.exclude_dirs = patterns.directories
    /\ args.extensions = argv.extensions
    /\ args.exact_match = argv.exact_match
    /\ args.target_dirs = argv.target_dirs
    /\ args.include_dirs = argv.include_dirs
    /\ loc.include_all_files
    /\ loc.include_all_dirs

\* the files of the walk that match no exclusion, in walk order
C11_Unexcluded ==
  PathsIn(SelectSeq(seen.files, LAMBDA r : ~C9_Excluded(cfg, C9_Name(r))))

\* the directories of the walk whose name is not in exclude_dirs, in walk order
C11_DirsKept ==
  SelectSeq(seen.dirs, LAMBDA d :
    \A i \in 1..Len(cfg.exclude_dirs) : cfg.exclude_dirs[i] # d[Len(d)])

\* a walk was made in the mode --patterns-exclude
C11_Walked ==
  /\ seen # NothingSeen
  /\ argv.patterns_file = PatternsPath
  /\ argv.patterns_exclude

\* C11 as claimed: in the mode --patterns-exclude every category of the
\* patterns file is resolved as an exclusion and none as an inclusion,
\* include_all_files and include_all_dirs are true, and the matched files are
\* exactly the files that match no exclusion and the matched directories
\* those whose name is not in exclude_dirs.
C11_MatchAsClaimed ==
  /\ C11_AllExclusions
  /\ C11_Walked =>
       /\ matched_dirs = C11_DirsKept
       /\ matched_files = C11_Unexcluded

\* C12: in the mode --patterns-excludeDirs the extensions and the exact names
\* of the patterns file are put in front of the inclusion lists extensions
\* and exact_match, its directories are exclude_dirs, include_all_files and
\* include_all_dirs are true, and the three exclusion lists for files are
\* what the command line gave: no entry of the patterns file, its contains
\* patterns included, becomes a file exclusion.
C12_ExcludeDirsMode ==
  C11_Resolved("patterns_excludeDirs") =>
    /\ args.extensions = patterns.extensions \o argv.extensions
    /\ args.exact_match = patterns.exact \o argv.exact_match
    /\ loc.exclude_dirs = patterns.directories
    /\ loc.include_all_files
    /\ loc.include_all_dirs
    /\ args.exclude_extensions = argv.exclude_extensions
    /\ args.exclude_exact = argv.exclude_exact
    /\ args.exclude_contains = argv.exclude_contains
    /\ args.target_dirs = argv.target_dirs
    /\ args.include_dirs = argv.include_dirs

\* The mode resolved a patterns file with an entry of each category, with an
\* extension of the command line to be kept behind those of the file.
C12_Witness ==
  /\ C11_Resolved("patterns_excludeDirs")
  /\ patterns.extensions # <<>>
  /\ patterns.exact # <<>>
  /\ patterns.contains # <<>>
  /\ patterns.directories # <<>>
  /\ argv.extensions # <<>>
  /\ Len(args.extensions) = 2


(***************************************************************************)
(* C13: a validation failure leaves nothing behind                         *)
(***************************************************************************)

\* the failures of the configuration, in the terms of the rules: inclusion
\* criteria are extensions, exact names and target directory names
C13_Invalid ==
  \/ Cardinality({k \in {"patterns_exclude", "patterns_excludeFiles",
                         "patterns_excludeDirs"} : argv[k]}) > 1
  \/ /\ pc \notin {"main", "resolve"}
     /\ argv.patterns_file # NoSuchFile
     /\ \/ /\ argv.patterns_file = "None"
           /\ ~args.exclude_all_but
           /\ args.extensions = <<>> /\ args.exact_match = <<>>
           /\ args.target_dirs = <<>>
           /\ args.exclude_extensions = <<>> /\ args.exclude_exact = <<>>
           /\ args.exclude_contains = <<>>
        \/ /\ args.exclude_all_but
           /\ args.extensions = <<>> /\ args.exact_match = <<>>
           /\ args.target_dirs = <<>>
        \/ (args.include_dirs /\ args.target_dirs = <<>>)
        \/ (args.contains_extension /\ args.extensions = <<>>)

\* C13 as claimed: in every state of a run whose configuration fails the
\* validation (more than one mode flag, no criteria, exclude_all_but without
\* inclusion criteria, include_dirs without target names, contains_extension
\* without extensions) no walk has been made, the file system is the one of
\* the start (no backup, no destination directory, no item touched) and
\* nothing has been attempted.
C13_NothingBeforeValidation ==
  C13_Invalid =>
    /\ seen = NothingSeen
    /\ matched_files = <<>>
    /\ matched_dirs = <<>>
    /\ fs = fs0
    /\ attempts = <<>>


(***************************************************************************)
(* C14, C15, C18: the directories of the walk, and the files of a walk     *)
(* for directories                                                         *)
(***************************************************************************)

C14_In(lst, x) == \E i \in 1..Len(lst) : lst[i] = x

\* the rule for one directory, on its bare name
C14_Wanted(c, d) ==
  /\ ~C14_In(c.exclude_dirs, d[Len(d)])
  /\ \/ c.include_all_dirs
     \/ (c.include_dirs /\ C14_In(c.target_dirs, d[Len(d)]))

\* C14: matched_dirs is, in walk order, the directories met by the walk
\* (recursive or of source_dir alone) whose name is not in exclude_dirs and
\* for which include_all_dirs holds or include_dirs holds with the name in
\* target_dirs.
C14_MatchedDirs ==
  pc = "found" =>
    matched_dirs = SelectSeq(seen.dirs, LAMBDA d : C14_Wanted(cfg, d))

\* A walk with include_all_dirs and a name excluded: two directories matched,
\* one met and left out.
C14_Witness ==
  /\ pc = "found"
  /\ cfg.include_all_dirs
  /\ cfg.exclude_dirs # <<>>
  /\ Len(matched_dirs) = 2
  /\ \E i \in 1..Len(seen.dirs) :
       C14_In(cfg.exclude_dirs, seen.dirs[i][Len(seen.dirs[i])])

\* p lies beneath a directory, itself beneath source_dir, whose name is in
\* exclude_dirs
C15_BeneathExcluded(p) ==
  \E k \in (Len(source_dir) + 1)..(Len(p) - 1) : C14_In(cfg.exclude_dirs, p[k])

C15_SeenFile(p) == \E i \in 1..Len(seen.files) : seen.files[i].path = p

\* C15: a recursive walk meets every file and every directory beneath
\* source_dir, those beneath a directory named in exclude_dirs included, and
\* what is beneath such a directory is matched as it is anywhere else: a
\* file there is matched exactly when a file of the same name outside is, a
\* directory there exactly when its own name asks for it.
C15_NoPruning ==
  (pc = "found" /\ cfg.recursive /\ ~FindRejects(cfg)) =>
    /\ \A e \in fs :
         (e.path # source_dir /\ Under(e.path, source_dir)) =>
           IF e.kind = "file" THEN C15_SeenFile(e.path)
           ELSE C14_In(seen.dirs, e.path)
    /\ \A e \in fs, o \in fs :
         (/\ e.kind = "file" /\ o.kind = "file"
          /\ C15_BeneathExcluded(e.path)
          /\ e.path[Len(e.path)] = o.path[Len(o.path)]) =>
           (C9_InMatched(e.path) <=> C9_InMatched(o.path))
    /\ \A e \in fs :
         (e.kind = "dir" /\ C15_BeneathExcluded(e.path)) =>
           (C14_In(matched_dirs, e.path) <=> C14_Wanted(cfg, e.path))

\* A recursive walk with the directory d excluded: d is not matched, the
\* file in it and the directory e in it are.
C15_Witness ==
  /\ pc = "found"
  /\ cfg.recursive
  /\ cfg.exclude_dirs = <<DirD>>
  /\ IsDir(fs, Join(Join(source_dir, DirD), DirE))
  /\ ~C14_In(matched_dirs, Join(source_dir, DirD))
  /\ C14_In(matched_dirs, Join(Join(source_dir, DirD), DirE))
  /\ C9_InMatched(Join(Join(source_dir, DirD), <<"a">>))
  /\ C9_InMatched(Join(source_dir, <<"a">>))

\* the only criterion is the targeting of directories
C18_OnlyTargets ==
  /\ ~cfg.exclude_all_but
  /\ ~cfg.include_all_files
  /\ ~cfg.include_all_dirs
  /\ cfg.include_dirs
  /\ cfg.target_dirs # <<>>
  /\ cfg.extensions = <<>>
  /\ cfg.exact_match = <<>>
  /\ cfg.exclude_extensions = <<>>
  /\ cfg.exclude_exact = <<>>
  /\ cfg.exclude_contains = <<>>
  /\ cfg.exclude_dirs = <<>>

\* C18: when the only criterion is the targeting of directories, every file
\* the walk meets is in matched_files, in walk order, and matched_dirs is the
\* directories whose name is in target_dirs.
C18_TargetsSelectEveryFile ==
  (pc = "found" /\ C18_OnlyTargets) =>
    /\ matched_files = PathsIn(seen.files)
    /\ matched_dirs =
         SelectSeq(seen.dirs, LAMBDA d : C14_In(cfg.target_dirs, d[Len(d)]))

\* A recursive walk for the directories named d: the three files of the tree
\* are matched with them.
C18_Witness ==
  /\ pc = "found"
  /\ C18_OnlyTargets
  /\ cfg.recursive
  /\ Len(seen.files) = 3
  /\ Len(matched_files) = 3
  /\ matched_dirs # <<>>


(***************************************************************************)
(* C16, C17: the order of the two batches, and what a copy leaves           *)
(***************************************************************************)

C16_FileAttempts == SelectSeq(attempts, LAMBDA t : ~t.is_dirs)

C16_Errors ==
  LET failed == SelectSeq(attempts, LAMBDA t : t.error # "none")
  IN  [i \in 1..Len(failed) |-> <<failed[i].path, failed[i].error>>]

\* C16: in every run that processes its items, no directory is attempted
\* before every matched file has been attempted: the attempts are those on
\* the matched files, in order, followed by those on directories; the call
\* on the directories starts with all files counted as processed or failed;
\* and at the end the errors of the files followed by those of the
\* directories are the failures in the order they happened.
C16_FilesBeforeDirs ==
  /\ \A i \in 1..Len(attempts) :
       IF i <= Len(matched_files)
         THEN ~attempts[i].is_dirs /\ attempts[i].path = matched_files[i]
         ELSE /\ attempts[i].is_dirs
              /\ attempts[i].path = matched_dirs[i - Len(matched_files)]
  /\ pc \in {"dirs", "finished"} =>
       /\ Len(C16_FileAttempts) = Len(matched_files)
       /\ outcome.files_processed + Len(outcome.file_errors) = Len(matched_files)
  /\ pc = "finished" =>
       outcome.file_errors \o outcome.dir_errors = C16_Errors

\* A finished run over three files and two directories in which a file and
\* a directory failed.
C16_Witness ==
  /\ pc = "finished"
  /\ Len(matched_files) = 3
  /\ Len(matched_dirs) = 2
  /\ outcome.file_errors # <<>>
  /\ outcome.dir_errors # <<>>
  /\ outcome.files_processed > 0

\* the contents of the file at p, or "-" when p is not a file
C17_Data(f, p) ==
  IF IsFile(f, p) THEN (CHOOSE e \in f : e.path = p).data ELSE "-"

\* C17 as claimed (for a run that is not a dry run): after a copy that
\* finished with no error, every matched file is a file at dest_dir joined
\* with its path relative to source_dir, with the contents of the source
\* file, and the source file is as it was.
C17_CopyRoundTrip ==
  (/\ pc = "finished"
   /\ args.operation = "copy"
   /\ ~args.dry_run
   /\ outcome.file_errors \o outcome.dir_errors = <<>>) =>
    \A i \in 1..Len(matched_files) :
      LET src == matched_files[i]
          dst == args.dest_dir \o RelPath(src, source_dir)
      IN  /\ IsFile(fs0, src)
          /\ IsFile(fs, src)
          /\ C17_Data(fs, src) = C17_Data(fs0, src)
          /\ IsFile(fs, dst)
          /\ C17_Data(fs, dst) = C17_Data(fs0, src)


====
